---- MODULE Spec2Model ----
(***************************************************************************)
(* WildDuck MCP plugin: the protocol gateway.                              *)
(*                                                                         *)
(* The repository holds three revisions of the gateway:                    *)
(*   "session"   lib/mcp-server.js (and the logging copy that ends         *)
(*               lib/services/message-service.js): one transport per       *)
(*               session, kept in this.transports;                         *)
(*   "stateless" unnamed/part_002: one transport and server per request;   *)
(*   "http"      lib/handlers/http-handler.js: a plain JSON-RPC handler.   *)
(* `variant` says which one is deployed; it is fixed at construction, as   *)
(* is config.readOnly.                                                     *)
(***************************************************************************)
EXTENDS Integers, FiniteSets, Sequences, TLC

VARIABLES
    variant,    \* which revision of the gateway runs
    readOnly,   \* this.config.readOnly
    tr,         \* every StreamableHTTPServerTransport created (stateless mode: with its server)
    table,      \* this.transports: a set of <<sessionId, transport>> entries
    uuids,      \* how many ids crypto.randomUUID() has produced
    seen,       \* every session id that ever was a key of this.transports
    oneShot,    \* stateless mode: how many per-request transport/server pairs are open
    authLog,    \* the last authenticateRequest run: credentials, token handed on, and
                \* the log records written for the request
    last,       \* the last event: the request handled and how it was routed
    resp,       \* the response written for that request
    calls,      \* the Mail Data Service operations invoked for that request
    sd,         \* shutdown(): where its loop over this.transports stands
    effects,    \* handleHTTP: what the last call did to res and next, in order
    store,      \* this.db: the messages collection and the GridFS files
    now,        \* Math.floor(Date.now() / 1000)
    issued,     \* the signed attachment URLs handed out so far, each with the time it was made
    att         \* the last request to the attachment delivery endpoint and its outcome

vars == <<variant, readOnly, tr, table, uuids, seen, oneShot, authLog, last, resp, calls,
          sd, effects, store, now, issued, att>>

\* What the gateway proper keeps, and what the attachment path works on
gatewayVars ==
    <<variant, readOnly, tr, table, uuids, seen, oneShot, authLog, last, resp, calls, sd,
      effects>>
attVars == <<store, now, issued, att>>

-----------------------------------------------------------------------------
(* Bounds of the model *)

MaxTransports == 2
MaxOneShot == 2
\* How many characters an access token has
TokenLen == 8

-----------------------------------------------------------------------------
(* Values *)

None == "none"
Users == {"u1", "u2"}
Variants == {"session", "stateless", "http"}

\* JavaScript truthiness of an optional string
Truthy(x) == x /= None /\ x /= ""

\* JavaScript a || b
Or(a, b) == IF Truthy(a) THEN a ELSE b

-----------------------------------------------------------------------------
(* Token Resolver: authenticateRequest *)

NoAuthz == [scheme |-> None, tok |-> None]

\* req.headers.authorization && startsWith('Bearer ') ? substring(7) : null
BearerToken(authz) ==
    IF authz.scheme = "Bearer" THEN authz.tok ELSE None

\* The order the documentation gives: path, X-Access-Token, Bearer, query
DocumentedToken(c) ==
    Or(Or(Or(c.path, c.xhdr), BearerToken(c.authz)), c.query)

\* let accessToken = req.params.accessToken || req.query.accessToken ||
\*                   req.headers['x-access-token'] || (Bearer token)
ResolveToken(c) ==
    Or(Or(Or(c.path, c.query), c.xhdr), BearerToken(c.authz))

\* req.authenticate(accessToken), WildDuck's authentication entry point:
\* "tA" and "tB" are valid tokens of u1 and u2, "bad" is refused, "boom" throws,
\* and "tD" is a valid token of the account "ud", which has been disabled since:
\* the token is recognised and the account's state is reported with it.
\* "tG" is a valid token of "ug", whose record has left the users collection.
Authenticate(tok) ==
    CASE tok = "tA" ->
            [threw |-> FALSE, authenticated |-> TRUE, user |-> "u1", disabled |-> FALSE]
      [] tok = "tB" ->
            [threw |-> FALSE, authenticated |-> TRUE, user |-> "u2", disabled |-> FALSE]
      [] tok = "tD" ->
            [threw |-> FALSE, authenticated |-> TRUE, user |-> "ud", disabled |-> TRUE]
      [] tok = "tG" ->
            [threw |-> FALSE, authenticated |-> TRUE, user |-> "ug", disabled |-> FALSE]
      [] tok = "boom" ->
            [threw |-> TRUE, authenticated |-> FALSE, user |-> None, disabled |-> FALSE]
      [] OTHER ->
            [threw |-> FALSE, authenticated |-> FALSE, user |-> None, disabled |-> FALSE]

\* authenticateRequest: the value of req.user afterwards (None: not set)
AuthenticateRequest(c) ==
    LET accessToken == ResolveToken(c)
    IN  IF Truthy(accessToken)
        THEN LET authResult == Authenticate(accessToken)
             IN  IF ~authResult.threw /\ authResult.authenticated
                 THEN authResult.user
                 ELSE None
        ELSE None

\* Credentials of a request: every combination of the four locations
AllCreds ==
    [path : {None, "tA", "tB"},
     query : {None, "tA", "tB", "bad"},
     xhdr : {None, "", "tA", "boom", "tD"},
     authz : {NoAuthz, [scheme |-> "Bearer", tok |-> "tA"],
              [scheme |-> "Bearer", tok |-> "tB"],
              [scheme |-> "Basic", tok |-> "tA"]}]

NoCred == [path |-> None, query |-> None, xhdr |-> None, authz |-> NoAuthz]

\* The credentials the gateway runs are driven with
RunCreds ==
    {NoCred,
     [NoCred EXCEPT !.path = "tA"],
     [NoCred EXCEPT !.query = "bad"],
     [NoCred EXCEPT !.xhdr = "boom"],
     [NoCred EXCEPT !.xhdr = "tD"],
     [NoCred EXCEPT !.authz = [scheme |-> "Bearer", tok |-> "tB"]]}

-----------------------------------------------------------------------------
(* Capability Registry: the tool lists *)

readOnlyTools ==
    {"listMailboxes", "getMessages", "getMessage", "searchMessages",
     "getThread", "getAttachment"}

writeTools == {"createMailbox", "moveMessage", "deleteMessage", "markAsRead"}

\* part_002 lists two more reading tools
readOnlyToolsStateless ==
    readOnlyTools \cup {"searchMessagesOr", "getMultipleMessages"}

\* A registry that forgets the access mode
ListToolsNoFilter(isReadOnly, readTools) == readTools \cup writeTools

\* tools = [...readOnlyTools]; if (!isReadOnly) tools = tools.concat(writeTools)
ListTools(isReadOnly, readTools) ==
    IF ~isReadOnly THEN readTools \cup writeTools ELSE readTools

-----------------------------------------------------------------------------
(* Mail Data Service: the lookups of MessageService and AttachmentService *)

\* Message ids and attachment ids a request may name; "m9" and "a9" name nothing
MessageIds == {"m1", "m2", "m9"}
AttachmentIds == {"a1", "a2", "a9"}

\* The attachments.files collection of GridFS, to begin with
GridfsFiles == {"g1", "g2"}

\* this.db: the messages collection and the GridFS files. m1 belongs to u1 and
\* m2 to u2; `user` is the owner field of the message, `mailboxUser` the owner
\* of the mailbox it lies in, and `attachmentMap` is mimeTree.attachmentMap as
\* <<attachmentId, gridfsId>> pairs, `flags` its IMAP flags. `users` is the
\* users collection.
InitialStore ==
    [messages |->
        {[id |-> "m1", user |-> "u1", mailboxUser |-> "u1", attachmentMap |-> {<<"a1", "g1">>},
          flags |-> {}],
         [id |-> "m2", user |-> "u2", mailboxUser |-> "u2", attachmentMap |-> {<<"a2", "g2">>},
          flags |-> {"\\Seen"}]},
     files |-> GridfsFiles,
     users |-> {"u1", "u2", "ud"}]

\* What a service operation returns (data: the ids of what was read) or throws
Returned(data) == [threw |-> FALSE, msg |-> None, data |-> data]
Thrown(msg) == [threw |-> TRUE, msg |-> msg, data |-> {}]

\* A lookup that forgets whose message it is
getMessageAnyOwner(userId, messageId) ==
    IF \E m \in store.messages : m.id = messageId
    THEN Returned({messageId})
    ELSE Thrown("Message not found")

\* MessageService.getMessage(userId, messageId): findOne({user, _id}), then the
\* mailbox by {_id: message.mailbox, user}. (The ids of the model are not
\* numeric, so the uid branch of the query is not taken.)
getMessage(userId, messageId) ==
    LET found == {m \in store.messages : m.user = userId /\ m.id = messageId}
    IN  IF found = {} THEN Thrown("Message not found")
        ELSE IF (CHOOSE m \in found : TRUE).mailboxUser /= userId THEN Thrown("Mailbox not found")
        ELSE Returned({messageId})

\* AttachmentService.getAttachment(userId, messageId, attachmentId, returnType):
\* findOne({_id}); with a userId, the mailbox by {_id: message.mailbox, user};
\* the GridFS id from the attachmentMap, or else the attachmentId itself
getAttachment(userId, messageId, attachmentId) ==
    LET found == {m \in store.messages : m.id = messageId}
        message == CHOOSE m \in found : TRUE
        mapped == {e \in message.attachmentMap : e[1] = attachmentId}
        gridfsId == IF mapped /= {} THEN (CHOOSE e \in mapped : TRUE)[2] ELSE attachmentId
    IN  IF found = {} THEN Thrown("Message not found")
        ELSE IF Truthy(userId) /\ message.mailboxUser /= userId THEN Thrown("Message not found")
        ELSE IF gridfsId \notin store.files THEN Thrown("Attachment not found")
        ELSE Returned({gridfsId})

\* JavaScript truthiness of an optional JSON boolean
TruthyBoolean(v) == v = "true"

\* The update operators of updateMessageFlags: $addToSet {$each: flags},
\* $pull {$in: flags} (the fallback: $pullAll), $set
ApplyFlags(current, flags, action) ==
    CASE action = "add" -> current \cup flags
      [] action = "remove" -> current \ flags
      [] OTHER -> flags

\* MessageService.updateMessageFlags(userId, messageId, flags, action): the
\* message by {user, _id}, its mailbox by {_id, user}, then the update; `store`
\* of the result is the database afterwards
updateMessageFlags(userId, messageId, flags, action) ==
    LET found == {m \in store.messages : m.user = userId /\ m.id = messageId}
        message == CHOOSE m \in found : TRUE
    IN  IF found = {}
        THEN [threw |-> TRUE, msg |-> "Message not found", data |-> {}, store |-> store]
        ELSE IF message.mailboxUser /= userId
        THEN [threw |-> TRUE, msg |-> "Mailbox not found", data |-> {}, store |-> store]
        ELSE [threw |-> FALSE, msg |-> None, data |-> {},
              store |-> [store EXCEPT !.messages =
                            (@ \ {message})
                            \cup {[message EXCEPT !.flags = ApplyFlags(@, flags, action)]}]]

\* MailboxService.getMailboxList(userId, counters): findOne on users by _id,
\* 'User not found' without one; the data are the mailbox paths
getMailboxList(userId) ==
    IF userId \notin store.users THEN Thrown("User not found") ELSE Returned({"INBOX"})

\* UserService.getUserInfo(userId): userHandler.asyncGet, 'User not found'
\* without a record; the data are the user's addresses
getUserInfo(userId) ==
    IF userId \notin store.users THEN Thrown("User not found")
    ELSE Returned({userId \o "@example.com"})

-----------------------------------------------------------------------------
(* Dispatcher: what a handler asks of the Mail Data Service *)

\* One invocation of a Mail Data Service operation
Call(op, principal) == [op |-> op, principal |-> principal]

WriteOps == {"createMailbox", "moveMessage", "deleteMessage", "updateMessageFlags"}

\* What a request handler did: the operations it invoked, and what it returned
\* (tools listed, data read) or the message of the error it threw; `store` is
\* the database it leaves
Done(cs) ==
    [threw |-> FALSE, calls |-> cs, tools |-> {}, msg |-> None, data |-> {}, store |-> store]
Threw(msg) ==
    [threw |-> TRUE, calls |-> {}, tools |-> {}, msg |-> msg, data |-> {}, store |-> store]

\* result = await service.op(...): the handler returns or throws as the operation does
Awaited(cs, r) ==
    [threw |-> r.threw, calls |-> cs, tools |-> {}, msg |-> r.msg, data |-> r.data,
     store |-> store]

\* The same for an operation that writes to the database
AwaitedWrite(cs, r) == [Awaited(cs, r) EXCEPT !.store = r.store]

MessagePrefix == "wildduck://message/"
AttachmentPrefix == "wildduck://attachment/"

MessageUris == {MessagePrefix \o m : m \in {"m1", "m2"}}
AttachmentUris == {AttachmentPrefix \o "m1/a1", AttachmentPrefix \o "m2/a2"}

\* uri.replace('wildduck://message/', '')
MessageIdOfUri(uri) == CHOOSE m \in MessageIds : uri = MessagePrefix \o m

\* uri.replace('wildduck://attachment/', '').split('/')
AttachmentOfUri(uri) ==
    CHOOSE p \in MessageIds \X AttachmentIds : uri = AttachmentPrefix \o p[1] \o "/" \o p[2]
FixedUris == {"wildduck://mailbox/list", "wildduck://messages/recent", "wildduck://user/info"}
Uris == MessageUris \cup AttachmentUris \cup FixedUris \cup {"wildduck://nope"}

CompletionRefs ==
    {"wildduck://completion/mailbox", "wildduck://completion/email", "wildduck://completion/other"}

\* The switch over toolName shared by the CallTool handler and handleToolCall
ToolSwitch(toolName, userId, args) ==
    CASE toolName = "listMailboxes" ->
            Awaited({Call("getMailboxList", userId)}, getMailboxList(userId))
      [] toolName = "getMessages" -> Done({Call("getMessages", userId)})
      [] toolName = "getMessage" ->
            Awaited({Call("getMessage", userId)}, getMessage(userId, args.messageId))
      [] toolName = "searchMessages" -> Done({Call("searchMessages", userId)})
      [] toolName = "getThread" -> Done({Call("getThread", userId)})
      [] toolName = "getAttachment" ->
            Awaited({Call("getAttachment", userId)},
                    getAttachment(userId, args.messageId, args.attachmentId))
      [] toolName = "createMailbox" -> Done({Call("createMailbox", userId)})
      [] toolName = "moveMessage" -> Done({Call("moveMessage", userId)})
      [] toolName = "deleteMessage" -> Done({Call("deleteMessage", userId)})
      [] toolName = "markAsRead" ->
            AwaitedWrite({Call("updateMessageFlags", userId)},
                         updateMessageFlags(userId, args.messageId,
                                            IF TruthyBoolean(args.read) THEN {"\\Seen"} ELSE {},
                                            IF TruthyBoolean(args.read) THEN "add" ELSE "remove"))
      [] OTHER -> Threw("Unknown tool")

\* CallToolRequestSchema handler: userId = extra.authInfo.userId
CallTool(toolName, userId, args) ==
    IF userId = None THEN Threw("User authentication required")
    ELSE ToolSwitch(toolName, userId, args)

\* HttpHandler.handleToolCall(userId, toolName, args)
handleToolCall(userId, toolName, args) == ToolSwitch(toolName, userId, args)

\* CallTool handler of the stateless revision: userId is the registerHandlers
\* parameter; two more reading tools
CallToolStateless(toolName, userId, args) ==
    CASE toolName = "searchMessagesOr" -> Done({Call("searchMessagesOr", userId)})
      [] toolName = "getMultipleMessages" -> Done({Call("getMultipleMessages", userId)})
      [] OTHER -> ToolSwitch(toolName, userId, args)

\* The resource switch shared by the ReadResource handlers and handleResourceRead
ResourceSwitch(uri, userId) ==
    CASE uri \in MessageUris ->
            Awaited({Call("getMessage", userId)}, getMessage(userId, MessageIdOfUri(uri)))
      [] uri \in AttachmentUris ->
            Awaited({Call("getAttachment", userId)},
                    getAttachment(userId, AttachmentOfUri(uri)[1], AttachmentOfUri(uri)[2]))
      [] uri = "wildduck://mailbox/list" ->
            Awaited({Call("getMailboxList", userId)}, getMailboxList(userId))
      [] uri = "wildduck://messages/recent" -> Done({Call("getRecentMessages", userId)})
      [] uri = "wildduck://user/info" ->
            Awaited({Call("getUserInfo", userId)}, getUserInfo(userId))
      [] OTHER -> Threw("Unknown resource")

\* ReadResourceRequestSchema handler
ReadResource(uri, userId) ==
    IF userId = None THEN Threw("User authentication required") ELSE ResourceSwitch(uri, userId)

\* HttpHandler.handleResourceRead(userId, uri, req)
handleResourceRead(userId, uri) == ResourceSwitch(uri, userId)

\* try { result = await lookup } catch (error) { return { completion: { values: [] } } }
Caught(h) == IF h.threw THEN Done(h.calls) ELSE h

\* A provider switch whose lookups are not guarded
CompletionSwitchUnguarded(ref, who) ==
    CASE ref = "wildduck://completion/mailbox" ->
            Awaited({Call("getMailboxList", who)}, getMailboxList(who))
      [] ref = "wildduck://completion/email" ->
            Awaited({Call("getUserInfo", who)}, getUserInfo(who))
      [] OTHER -> Done({})

\* The provider switch of completion/complete, run for the principal `who`:
\* `data` of the result are completion.values
CompletionSwitch(ref, who) ==
    CASE ref = "wildduck://completion/mailbox" ->
            Caught(Awaited({Call("getMailboxList", who)}, getMailboxList(who)))
      [] ref = "wildduck://completion/email" ->
            Caught(Awaited({Call("getUserInfo", who)}, getUserInfo(who)))
      [] OTHER -> Done({})

\* CompleteRequestSchema handler: userId = extra.authInfo.userId
Complete(ref, argUserId, userId) ==
    IF userId = None THEN Done({}) ELSE CompletionSwitch(ref, userId)

\* HttpHandler.handleCompletion(ref, argument): the principal is argument.userId
handleCompletion(ref, argUserId) ==
    IF ref \in {"wildduck://completion/mailbox", "wildduck://completion/email"}
    THEN IF ~Truthy(argUserId) THEN Done({}) ELSE CompletionSwitch(ref, argUserId)
    ELSE Done({})

-----------------------------------------------------------------------------
(* Signed URL Codec: signData, generateSecureAttachmentUrl, verifySecureAttachmentUrl *)

\* 1 hour expiry
TTL == 3600

\* How many hours the clock of the model runs
MaxHours == 1

\* How many signed URLs are handed out
MaxIssued == 1

\* How many messages and files leave the mail store
MaxRemoved == 1

\* The instants at which something happens: each full hour and the second after
ClockValues == {k * TTL + d : k \in 0 .. MaxHours, d \in {0, 1}}

\* this.config?.attachmentSecret || 'default-secret'
AttachmentSecret == "default-secret"

\* parseInt's NaN
NaN == -1

\* The numbers an `expires` path segment of the model can stand for
ExpiresValues == {c + k * TTL : c \in ClockValues, k \in 0 .. 2}

\* parseInt(expires, 10): the leading decimal digits of the string; NaN without any
parseInt(str) ==
    LET ns == {n \in ExpiresValues : str = ToString(n) \/ str = ToString(n) \o "x"}
    IN  IF ns = {} THEN NaN ELSE CHOOSE n \in ns : TRUE

\* now > parseInt(expires, 10): every comparison with NaN is false
Later(a, b) == b /= NaN /\ a > b

\* data.join(':')
Join(data) == data[1] \o ":" \o data[2] \o ":" \o data[3]

\* The base64url characters the digests of the model are written with
SigAlphabet == <<"A", "B", "C", "D">>
SigLen == 5

\* The message and attachment path segments of the model; two of them hold a ':'
MessageIdSeq == <<"m1", "m2", "m9", "m1:x">>
AttachmentIdSeq == <<"a1", "a2", "a9", "g2", "x:a1">>

IndexIn(seq, x) == CHOOSE i \in 1 .. Len(seq) : seq[i] = x

\* The pairs of path segments that join to the same text as <<messageId, attachmentId>>
SameText(messageId, attachmentId) ==
    {p \in {MessageIdSeq[i] : i \in 1 .. Len(MessageIdSeq)}
            \X {AttachmentIdSeq[i] : i \in 1 .. Len(AttachmentIdSeq)} :
        p[1] \o ":" \o p[2] = messageId \o ":" \o attachmentId}

\* The expires strings of the model, numbered one to one: 0 for those that are
\* no number, then two for each number, "n" and "nx", in the order of the numbers
ExpiresCode(str) ==
    LET n == parseInt(str)
        rank == Cardinality({e \in ExpiresValues : e < n})
    IN  IF n = NaN THEN 0
        ELSE IF str = ToString(n) THEN 2 * rank + 1
        ELSE 2 * rank + 2

\* The texts that get signed, data.join(':'), numbered one to one: the number
\* is that of the text, so two arrays that join to one text have one number.
\* (The expires strings of the model hold no ':', so the text after the last
\* ':' is data[3], and the text before it is data[1]:data[2].)
DataCode(data) ==
    LET p == CHOOSE q \in SameText(data[1], data[2]) : TRUE
    IN  ((IndexIn(MessageIdSeq, p[1]) - 1) * Len(AttachmentIdSeq)
            + (IndexIn(AttachmentIdSeq, p[2]) - 1)) * (2 * Cardinality(ExpiresValues) + 1)
        + ExpiresCode(data[3])

RECURSIVE Encode(_, _)
Encode(n, len) ==
    IF len = 0 THEN << >>
    ELSE Append(Encode(n \div Len(SigAlphabet), len - 1), SigAlphabet[(n % Len(SigAlphabet)) + 1])

\* crypto.createHmac('sha1', secret).update(dataToSign).digest('base64url'):
\* a keyed digest, taken to be collision free: different texts, different digests.
\* The model has one secret, so the digest is the number of the text, written out.
signData(data, secret) == Encode(DataCode(data), SigLen)

\* The path parameters of a signed URL:
\* /plugin/mcp/att/<messageId>/<attachmentId>/<expires>/<signature>/<filename>
SignedUrl(messageId, attachmentId, expires, signature) ==
    [messageId |-> messageId, attachmentId |-> attachmentId,
     expires |-> expires, signature |-> signature]

\* A codec whose links expire the moment they are made
generateSecureAttachmentUrlNoTtl(messageId, attachmentId, t) ==
    SignedUrl(messageId, attachmentId, ToString(t),
              signData(<<messageId, attachmentId, ToString(t)>>, AttachmentSecret))

\* generateSecureAttachmentUrl(messageId, attachmentId, filename, baseUrl) at time t:
\* expires = Math.floor(Date.now() / 1000) + 3600, written in decimal into the URL
generateSecureAttachmentUrl(messageId, attachmentId, t) ==
    LET expires == t + TTL
    IN  SignedUrl(messageId, attachmentId, ToString(expires),
                  signData(<<messageId, attachmentId, ToString(expires)>>, AttachmentSecret))

\* A codec that checks the expiry only
verifyExpiryOnly(messageId, attachmentId, expires, signature, t) ==
    IF Later(t, parseInt(expires)) THEN Thrown("Attachment link expired") ELSE Returned({})

\* verifySecureAttachmentUrl(messageId, attachmentId, expires, signature) at time t
verifySecureAttachmentUrl(messageId, attachmentId, expires, signature, t) ==
    IF Later(t, parseInt(expires)) THEN Thrown("Attachment link expired")
    ELSE IF signature /= signData(<<messageId, attachmentId, expires>>, AttachmentSecret)
    THEN Thrown("Invalid attachment signature")
    ELSE Returned({})

-----------------------------------------------------------------------------
(* Attachment Delivery Endpoint: handleSecureAttachment *)

\* The outcome of one request to GET /att/...: the path parameters, the time it
\* was handled, status and body text of the response, the Mail Data Service
\* operations invoked, the attachment bytes written, and whether this very URL
\* had been delivered before
Delivery(params, t, status, text, ops, written, again) ==
    [params |-> params, at |-> t, status |-> status, text |-> text, ops |-> ops,
     written |-> written, again |-> again]

NoDelivery == Delivery(SignedUrl(None, None, None, << >>), 0, 0, None, {}, {}, FALSE)

\* The URLs in the hands of clients
IssuedUrls == {i.url : i \in issued}

\* The signature with one character replaced
Flipped(signature) ==
    {[signature EXCEPT ![i] = c] :
        i \in 1 .. Len(signature), c \in {SigAlphabet[k] : k \in 1 .. Len(SigAlphabet)}}
    \ {signature}

\* What the endpoint is asked with: the URLs handed out, and each of them with
\* the signature changed in one character, with the expiry moved an hour on,
\* with an expiry that is no number, or pointed at the other message
AttachmentRequests ==
    IssuedUrls
    \cup UNION {{[u EXCEPT !.signature = f] : f \in Flipped(u.signature)} : u \in IssuedUrls}
    \cup {[u EXCEPT !.expires = ToString(parseInt(u.expires) + TTL)] : u \in IssuedUrls}
    \cup {[u EXCEPT !.expires = "abc"] : u \in IssuedUrls}
    \cup {[u EXCEPT !.messageId = "m2", !.attachmentId = "a2"] : u \in IssuedUrls}

\* An endpoint that fetches the attachment whatever the verification says
handleSecureAttachmentUnverified(p) ==
    LET g == getAttachment(None, p.messageId, p.attachmentId)
    IN  IF g.threw
        THEN Delivery(p, now, 500, g.msg, {Call("getAttachment", None)}, {}, FALSE)
        ELSE Delivery(p, now, 200, None, {Call("getAttachment", None)}, g.data, FALSE)

\* handleSecureAttachment(req, res): the response to the path parameters p.
\* A failed verification: 403 'Forbidden: ' + err.message; getAttachment with a
\* null userId; an error of it: 500 {error: err.message}
handleSecureAttachment(p) ==
    LET v == verifySecureAttachmentUrl(p.messageId, p.attachmentId, p.expires, p.signature, now)
        g == getAttachment(None, p.messageId, p.attachmentId)
    IN  IF v.threw
        THEN Delivery(p, now, 403, "Forbidden: " \o v.msg, {}, {}, FALSE)
        ELSE IF g.threw
        THEN Delivery(p, now, 500, g.msg, {Call("getAttachment", None)}, {}, FALSE)
        ELSE Delivery(p, now, 200, None, {Call("getAttachment", None)}, g.data, FALSE)

-----------------------------------------------------------------------------
(* Requests and responses *)

\* A generator that repeats itself
randomUUIDRepeating(produced) == 1

\* sessionIdGenerator: () => crypto.randomUUID(): an id never produced before,
\* numbered by how many were produced
randomUUID(produced) == produced + 1

\* A JSON-RPC id: a number, a string, null, or no id member at all
JsonId(type, v) == [type |-> type, v |-> v]
IdAbsent == JsonId("undefined", "")
IdNull == JsonId("null", "")
IdOne == JsonId("number", "1")

\* The id values requests are sent with: 1, 7, 0, "abc" and ""
Ids == {IdOne, JsonId("number", "7"), JsonId("number", "0"),
        JsonId("string", "abc"), JsonId("string", "")}

\* JavaScript truthiness of an id: undefined, null, 0 and "" are falsy
IdTruthy(id) ==
    /\ id.type \notin {"undefined", "null"}
    /\ ~(id.type = "number" /\ id.v = "0")
    /\ ~(id.type = "string" /\ id.v = "")

\* id || null
IdOrNull(id) == IF IdTruthy(id) THEN id ELSE IdNull

\* id ?? 1
IdOrOne(id) == IF id.type \in {"undefined", "null"} THEN IdOne ELSE id

\* req.body: {id, method, params}. `name` is params.name, params.uri or params.ref,
\* `argUser` is params.argument.userId (params.arguments.userId for a tool),
\* messageId, attachmentId and read are the tool's arguments; read is a JSON
\* boolean, "undefined" when the arguments have no such member
Body(rpc, name, argUser) ==
    [rpc |-> rpc, name |-> name, argUser |-> argUser, id |-> IdOne,
     messageId |-> None, attachmentId |-> None, read |-> "undefined"]

\* The same request under another id
WithId(body, id) == [body EXCEPT !.id = id]

\* tools/call with arguments {messageId, attachmentId}
ToolCallOn(name, messageId, attachmentId) ==
    [Body("tools/call", name, None) EXCEPT !.messageId = messageId, !.attachmentId = attachmentId]

\* params.arguments || {}
Args(body) ==
    [messageId |-> body.messageId, attachmentId |-> body.attachmentId, read |-> body.read]

\* tools/call markAsRead with arguments {messageId, read}
MarkAsRead(messageId, read) ==
    [Body("tools/call", "markAsRead", None) EXCEPT !.messageId = messageId, !.read = read]

NoBody == WithId(Body(None, None, None), IdAbsent)
InitBody == Body("initialize", None, None)

\* isInitializeRequest(req.body)
isInitializeRequest(body) == body.rpc = "initialize"

ToolNames == readOnlyToolsStateless \cup writeTools \cup {"noSuchTool"}

Bodies ==
    {Body(m, None, None) : m \in {"initialize", "tools/list", "resources/list", "bogus/method"}}
    \cup {WithId(Body("notifications/initialized", None, None), IdAbsent)}
    \cup {Body("tools/call", t, None) : t \in ToolNames}
    \cup {Body("tools/call", t, "u2") : t \in {"getMessage", "deleteMessage"}}
    \cup {ToolCallOn("getMessage", m, None) : m \in MessageIds}
    \cup {ToolCallOn("getAttachment", p[1], p[2]) :
            p \in {<<"m1", "a1">>, <<"m2", "a2">>, <<"m1", "a9">>, <<"m9", "a1">>, <<"m1", "g2">>}}
    \cup {Body("resources/read", u, None) : u \in Uris}
    \cup {Body("completion/complete", ref, a) : ref \in CompletionRefs, a \in Users \cup {None, "ug"}}
    \cup {WithId(Body(m, None, None), id) : m \in {"tools/list", "bogus/method"}, id \in Ids}

\* Session ids are numbered as crypto.randomUUID() hands them out; 0 is "no header".
\* MaxTransports + 1 is an id the gateway never issues.
SidHeaders == 0 .. (MaxTransports + 1)

\* Requests that differ in what the session manager looks at: credential,
\* HTTP method, session header, initialize or not
RouteRequests ==
    [cred : RunCreds, http : {"POST"}, sid : SidHeaders,
     body : {InitBody, Body("tools/list", None, None)}]
    \cup [cred : RunCreds, http : {"GET"}, sid : SidHeaders, body : {NoBody, InitBody}]
    \cup [cred : RunCreds, http : {"DELETE"}, sid : SidHeaders, body : {NoBody}]

\* Requests that differ in what the dispatcher looks at: the JSON-RPC body,
\* sent by either user under the first session id
DispatchRequests ==
    [cred : {[NoCred EXCEPT !.path = "tA"],
             [NoCred EXCEPT !.authz = [scheme |-> "Bearer", tok |-> "tB"]]},
     http : {"POST"}, sid : {randomUUID(0)}, body : Bodies]
    \cup [cred : {[NoCred EXCEPT !.xhdr = "tG"]},
          http : {"POST"}, sid : {randomUUID(0)},
          body : {Body("completion/complete", ref, None) : ref \in CompletionRefs}]

\* What session mode is driven with: requests that reach every branch of the
\* session manager once (each credential, without a session header and with
\* the first session id), and those the dispatcher tells apart
Requests ==
    [cred : RunCreds, http : {"POST"}, sid : {0, randomUUID(0)},
     body : {InitBody, Body("tools/list", None, None)}]
    \cup DispatchRequests

\* The requests that open sessions: u1's; u2 and the others come to them with
\* the session ids they were given
InitializeRequests == {r \in Requests : r.cred = [NoCred EXCEPT !.path = "tA"]}

\* What stateless mode is driven with: no session header
StatelessRequests ==
    {r \in RouteRequests \cup DispatchRequests : r.sid = 0}
    \cup {[r EXCEPT !.sid = 0] : r \in DispatchRequests}

\* A response: HTTP status, JSON-RPC error code (0: none) and message, and of a
\* result the tools listed and the data read; `id` is the id member of the
\* JSON-RPC envelope (IdAbsent: the body has none)
Response(status, code, msg, tools) ==
    [status |-> status, code |-> code, msg |-> msg, tools |-> tools,
     id |-> IdAbsent, data |-> {}]

\* {jsonrpc: '2.0', id, ...}
Envelope(rsp, id) == [rsp EXCEPT !.id = id]

NoResponse == Response(0, 0, None, {})
Ok(tools) == Response(200, 0, None, tools)

\* res.status(401); res.json({error: 'Authentication required', code: 'MISSING_TOKEN', ...})
Unauthenticated401 == Response(401, 0, "Authentication required", {})

\* The stateless revision answers in SSE format: res.status(200), error code -32600
UnauthenticatedSse == Response(200, -32600, "Authentication required", {})

\* res.status(400); error {code: -32000, message: 'No session found. Initialize first.'}
NoSession400 == Response(400, -32000, "No session found. Initialize first.", {})

\* The SDK transport refuses a second initialize on an initialized transport
AlreadyInitialized == Response(400, -32600, "Server already initialized", {})

\* The SDK answers a method no handler is registered for
MethodNotFound == Response(200, -32601, "Method not found", {})

\* The SDK answers a message without id, a notification, 202 and runs no request handler
Accepted202 == Response(202, 0, None, {})

\* A handler that threw: the SDK (and BaseHandler.sendError) answer code -32603
\* with the message of the error
InternalError(msg) == Response(200, -32603, msg, {})

\* The answer to what a request handler did, before the envelope's id is set
ResultOf(h) == IF h.threw THEN InternalError(h.msg) ELSE [Ok(h.tools) EXCEPT !.data = h.data]

\* The SDK server answers a request under the request's own id
SdkAnswer(h, id) == Envelope(ResultOf(h), id)

\* BaseHandler.sendResponse(res, id, result): {jsonrpc, id, result}
sendResponse(id, h) == Envelope([Ok(h.tools) EXCEPT !.data = h.data], id)

\* BaseHandler.sendError(res, id, error): {jsonrpc, id: id || null, error: {code: -32603, message}}
sendError(id, msg) == Envelope(InternalError(msg), IdOrNull(id))

\* The request handlers registerHandlers installs on a session-mode server;
\* userId is extra.authInfo.userId, which the SDK transport takes from req.auth
ServerDispatch(body, userId, isReadOnly) ==
    CASE body.rpc = "tools/list" ->
            [Done({}) EXCEPT !.tools = ListTools(isReadOnly, readOnlyTools)]
      [] body.rpc = "tools/call" -> CallTool(body.name, userId, Args(body))
      [] body.rpc = "resources/read" -> ReadResource(body.name, userId)
      [] body.rpc = "completion/complete" -> Complete(body.name, body.argUser, userId)
      [] OTHER -> Done({})

\* The handlers of the stateless revision; userId is the registerHandlers parameter
ServerDispatchStateless(body, userId, isReadOnly) ==
    CASE body.rpc = "tools/list" ->
            [Done({}) EXCEPT !.tools = ListTools(isReadOnly, readOnlyToolsStateless)]
      [] body.rpc = "tools/call" -> CallToolStateless(body.name, userId, Args(body))
      [] body.rpc = "resources/read" -> ResourceSwitch(body.name, userId)
      [] body.rpc = "completion/complete" -> CompletionSwitch(body.name, userId)
      [] OTHER -> Done({})

KnownMethods ==
    {"initialize", "notifications/initialized", "tools/list", "tools/call",
     "resources/list", "resources/read", "completion/complete"}

\* The switch of HttpHandler.handleHTTP over the JSON-RPC method, for req.user = user
HttpDispatch(body, user, isReadOnly) ==
    CASE body.rpc = "tools/list" ->
            [Done({}) EXCEPT !.tools = ListTools(isReadOnly, readOnlyTools)]
      [] body.rpc = "tools/call" ->
            IF ~Truthy(body.name) THEN Threw("Tool name required for tools/call")
            ELSE handleToolCall(user, body.name, Args(body))
      [] body.rpc = "resources/read" ->
            IF ~Truthy(body.name) THEN Threw("URI parameter required for resources/read")
            ELSE handleResourceRead(user, body.name)
      [] body.rpc = "completion/complete" ->
            IF ~Truthy(body.name)
            THEN Threw("Reference and argument required for completion/complete")
            ELSE handleCompletion(body.name, body.argUser)
      [] body.rpc = "notifications/initialized" -> Done({Call("getUserInfo", user)})
      [] body.rpc \in {"initialize", "resources/list"} -> Done({})
      [] OTHER -> Threw("Unknown method")

-----------------------------------------------------------------------------
(* Session/Transport Manager: this.transports and the transports *)

\* this.transports.get(sid): the transport registered under sid, 0 for undefined
TransportsGet(tbl, sid) ==
    IF \E e \in tbl : e[1] = sid
    THEN (CHOOSE e \in tbl : e[1] = sid)[2]
    ELSE 0

\* this.transports.has(sid)
TransportsHas(tbl, sid) == \E e \in tbl : e[1] = sid

\* A set that drops what the table held
TransportsSetAlone(tbl, sid, t) == {<<sid, t>>}

\* this.transports.set(sid, transport)
TransportsSet(tbl, sid, t) == {e \in tbl : e[1] /= sid} \cup {<<sid, t>>}

\* this.transports.delete(sid)
TransportsDelete(tbl, sid) == {e \in tbl : e[1] /= sid}

\* A callback that registers the transport under another key
onsessioninitializedWrongKey(tbl, sid, t) == TransportsSet(tbl, sid + 1, t)

\* onsessioninitialized: (sid) => { this.transports.set(sid, transport) }
onsessioninitialized(tbl, sid, t) == TransportsSet(tbl, sid, t)

\* A close callback that leaves the entry in place
oncloseKeepsEntry(tbl, sid) == tbl

\* transport.onclose: sid = transport.sessionId;
\* if (sid && this.transports.has(sid)) this.transports.delete(sid)
onclose(tbl, sid) ==
    IF sid /= 0 /\ TransportsHas(tbl, sid) THEN TransportsDelete(tbl, sid) ELSE tbl

\* A transport that was just constructed: no session id yet. `initializedBy` is
\* req.user of the initialize request it was made for.
NewTransport(user) ==
    [sessionId |-> 0, state |-> "connecting", initializedBy |-> user]

\* An authInfo that stays what it was when the session was initialized
authInfoOfSession(user, transport) == transport.initializedBy

\* extra.authInfo.userId in a request handler: the SDK transport hands on
\* req.auth, which handleRequest sets to {userId: req.user} on every request
authInfo(user, transport) == user

\* A router that creates a transport for any request without one
RouteCreatesForAny(user, transport, r) ==
    IF user = None THEN "401"
    ELSE IF transport = 0 THEN "create"
    ELSE "handle"

\* A router that takes every POST initialize as a new session
RouteInitAlwaysCreates(user, transport, r) ==
    IF user = None THEN "401"
    ELSE IF r.http = "POST" /\ isInitializeRequest(r.body) THEN "create"
    ELSE IF transport = 0 THEN "400"
    ELSE "handle"

\* What handleRequest does with a request, after authenticateRequest:
\*   "401"     req.user is not set
\*   "create"  no transport, POST and an initialize body: a new transport
\*   "400"     no transport otherwise
\*   "handle"  the transport found handles the request
Route(user, transport, r) ==
    IF user = None THEN "401"
    ELSE IF transport = 0 /\ r.http = "POST" /\ isInitializeRequest(r.body) THEN "create"
    ELSE IF transport = 0 THEN "400"
    ELSE "handle"

\* accessToken.slice(-6) keeps this many characters
MaskKeep == 6

\* The characters of a token, each a symbol of its own: the i-th character of
\* token tok. A location that holds nothing has none.
Chars(tok) ==
    IF Truthy(tok) THEN [i \in 1 .. TokenLen |-> tok \o "#" \o ToString(i)] ELSE << >>

\* str.slice(-n) on the characters of str
SliceLast(chars, n) ==
    IF Len(chars) <= n THEN chars ELSE SubSeq(chars, Len(chars) - n + 1, Len(chars))

\* The log records of authenticateRequest, each the sequence of the pieces of
\* its text: 'Authenticating request token=%s hasAuth=%s' with
\* accessToken ? '***' + accessToken.slice(-6) : 'none', then the result
\* (authenticated, user, role) or the error's message
authenticateRequestLog(c) ==
    LET accessToken == ResolveToken(c)
    IN  {<<"Authenticating request token=">>
            \o (IF Truthy(accessToken)
                THEN <<"*", "*", "*">> \o SliceLast(Chars(accessToken), MaskKeep)
                ELSE <<"none">>)
            \o <<" hasAuth=true">>}
        \cup (IF ~Truthy(accessToken) THEN {}
              ELSE IF Authenticate(accessToken).threw
              THEN {<<"Authentication failed error=">>}
              ELSE {<<"Auth result authenticated= user=", Authenticate(accessToken).user>>})

\* The log records handleRequest of the stateless revision writes before it looks
\* at req.user: 'Incoming request method=%s url=%s' with req.url, which has the
\* path and the query string, and 'Headers=%j' with req.headers
handleRequestLog(r) ==
    {<<"Incoming request method=", r.http, " url=/plugin/mcp/">> \o Chars(r.cred.path)
        \o (IF r.cred.query = None THEN << >>
            ELSE <<"?accessToken=">> \o Chars(r.cred.query)),
     <<"Headers=">>
        \o (IF r.cred.xhdr = None THEN << >>
            ELSE <<"x-access-token:">> \o Chars(r.cred.xhdr))
        \o (IF r.cred.authz.scheme = None THEN << >>
            ELSE <<"authorization:", r.cred.authz.scheme, " ">> \o Chars(r.cred.authz.tok))}

\* The record of one authenticateRequest run
AuthRun(c) ==
    [cred |-> c,
     handed |-> IF Truthy(ResolveToken(c)) THEN ResolveToken(c) ELSE None,
     user |-> AuthenticateRequest(c),
     logged |-> authenticateRequestLog(c)]

\* What an event found: the session table, the ids it ever held, and how many
\* transports (session mode) and open per-request pairs (stateless mode) existed
Before == [table |-> table, seen |-> seen, ntr |-> Len(tr), oneShot |-> oneShot]

Event(via, user, r, routedTo) ==
    [via |-> via, user |-> user, http |-> r.http, sid |-> r.sid, body |-> r.body,
     routedTo |-> routedTo, before |-> Before]

NoRequest == [cred |-> NoCred, http |-> None, sid |-> 0, body |-> NoBody]

\* shutdown() has not been called. `phase` is where shutdown() stands, `cursor`
\* the key its Map iterator visited last, `began` the transports registered when
\* it was called and `attempted` the transports it has called close() on.
NotShuttingDown == [phase |-> "idle", cursor |-> 0, began |-> {}, attempted |-> {}]

\* The entries a Map iterator standing after key `cursor` has yet to visit:
\* keys enter this.transports in the order randomUUID hands them out, and the
\* iterator is live, so it sees what is set and skips what is deleted meanwhile
Unvisited(tbl, cursor) == {e \in tbl : e[1] > cursor}

\* The entry the iterator yields next
NextEntry(tbl, cursor) ==
    CHOOSE e \in Unvisited(tbl, cursor) : \A f \in Unvisited(tbl, cursor) : e[1] <= f[1]

-----------------------------------------------------------------------------
(* Init *)

Init ==
    /\ variant \in Variants
    /\ readOnly \in BOOLEAN
    /\ tr = << >>
    /\ table = {}
    /\ uuids = 0
    /\ seen = {}
    /\ oneShot = 0
    /\ authLog = AuthRun(NoCred)
    /\ last = [via |-> None, user |-> None, http |-> None, sid |-> 0, body |-> NoBody,
               routedTo |-> 0,
               before |-> [table |-> {}, seen |-> {}, ntr |-> 0, oneShot |-> 0]]
    /\ resp = NoResponse
    /\ calls = {}
    /\ sd = NotShuttingDown
    /\ effects = << >>
    /\ store = InitialStore
    /\ now = 0
    /\ issued = {}
    /\ att = NoDelivery

-----------------------------------------------------------------------------
(* Session mode: MCPServerOfficial.handleRequest of lib/mcp-server.js *)

\* authenticateRequest, then handleRequest up to its first use of the transport.
\* Request r is not authenticated: 401.
HandleUnauthenticated(r) ==
    /\ variant = "session"
    /\ Route(AuthenticateRequest(r.cred), TransportsGet(table, r.sid), r) = "401"
    /\ authLog' = AuthRun(r.cred)
    /\ resp' = Unauthenticated401
    /\ calls' = {}
    /\ last' = Event("mcp", None, r, 0)
    /\ UNCHANGED <<variant, readOnly, tr, table, uuids, seen, oneShot>>
    /\ UNCHANGED <<sd, effects, store, now, issued, att>>

\* No transport under the request's session id, and not a POST initialize: 400.
HandleNoSession(r) ==
    /\ variant = "session"
    /\ Route(AuthenticateRequest(r.cred), TransportsGet(table, r.sid), r) = "400"
    /\ authLog' = AuthRun(r.cred)
    /\ resp' = Envelope(NoSession400, IdOrNull(r.body.id))
    /\ calls' = {}
    /\ last' = Event("mcp", AuthenticateRequest(r.cred), r, 0)
    /\ UNCHANGED <<variant, readOnly, tr, table, uuids, seen, oneShot>>
    /\ UNCHANGED <<sd, effects, store, now, issued, att>>

\* A POST initialize with no transport: a transport is constructed, its callbacks
\* are set, and the handler waits at `await server.connect(transport)`.
HandleInitialize(r) ==
    /\ variant = "session"
    /\ Route(AuthenticateRequest(r.cred), TransportsGet(table, r.sid), r) = "create"
    /\ Len(tr) < MaxTransports
    /\ authLog' = AuthRun(r.cred)
    /\ tr' = Append(tr, NewTransport(AuthenticateRequest(r.cred)))
    /\ resp' = NoResponse
    /\ calls' = {}
    /\ last' = Event("mcp", AuthenticateRequest(r.cred), r, 0)
    /\ UNCHANGED <<variant, readOnly, table, uuids, seen, oneShot>>
    /\ UNCHANGED <<sd, effects, store, now, issued, att>>

\* server.connect resolved: transport.handleRequest(req, res, req.body) runs the
\* initialize request. The SDK transport takes its session id from
\* sessionIdGenerator and calls onsessioninitialized with it.
ConnectResume(t) ==
    /\ variant = "session"
    /\ t \in 1 .. Len(tr)
    /\ tr[t].state = "connecting"
    /\ LET sid == randomUUID(uuids)
       IN  /\ uuids' = sid
           /\ tr' = [tr EXCEPT ![t].sessionId = sid, ![t].state = "active"]
           /\ table' = onsessioninitialized(table, sid, t)
           /\ seen' = seen \cup {e[1] : e \in onsessioninitialized(table, sid, t)}
           /\ last' = Event("init", None,
                            [cred |-> NoCred, http |-> "POST", sid |-> 0, body |-> InitBody], t)
    /\ resp' = Envelope(Ok({}), InitBody.id)
    /\ calls' = {}
    /\ UNCHANGED <<variant, readOnly, oneShot, authLog>>
    /\ UNCHANGED <<sd, effects, store, now, issued, att>>

\* The transport found under the request's session id handles the request:
\* a DELETE closes the transport (its onclose runs), a GET opens the event stream,
\* a POST is dispatched to the server's request handlers with authInfo = req.auth.
HandleRouted(r) ==
    /\ variant = "session"
    /\ Route(AuthenticateRequest(r.cred), TransportsGet(table, r.sid), r) = "handle"
    /\ LET user == AuthenticateRequest(r.cred)
           t == TransportsGet(table, r.sid)
           h == ServerDispatch(r.body, authInfo(user, tr[t]), readOnly)
       IN  /\ authLog' = AuthRun(r.cred)
           /\ last' = Event("mcp", user, r, t)
           /\ IF r.http = "DELETE"
              THEN /\ tr' = [tr EXCEPT ![t].state = "closed"]
                   /\ table' = onclose(table, tr[t].sessionId)
                   /\ resp' = Ok({})
                   /\ calls' = {}
              ELSE /\ UNCHANGED <<tr, table>>
                   /\ IF r.http = "GET"
                      THEN resp' = Ok({}) /\ calls' = {}
                      ELSE IF isInitializeRequest(r.body)
                      THEN resp' = Envelope(AlreadyInitialized, IdNull) /\ calls' = {}
                      ELSE IF r.body.id = IdAbsent
                      THEN resp' = Accepted202 /\ calls' = {}
                      ELSE IF r.body.rpc \notin KnownMethods
                      THEN resp' = Envelope(MethodNotFound, r.body.id) /\ calls' = {}
                      ELSE resp' = SdkAnswer(h, r.body.id) /\ calls' = h.calls
           /\ store' = IF /\ r.http = "POST" /\ ~isInitializeRequest(r.body)
                          /\ r.body.id /= IdAbsent /\ r.body.rpc \in KnownMethods
                       THEN h.store ELSE store
    /\ UNCHANGED <<variant, readOnly, uuids, seen, oneShot>>
    /\ UNCHANGED <<sd, effects, now, issued, att>>

\* The peer disconnects, or the transport is closed again: transport.onclose runs.
TransportClose(t) ==
    /\ variant = "session"
    /\ t \in 1 .. Len(tr)
    /\ tr[t].state \in {"active", "closed"}
    /\ tr' = [tr EXCEPT ![t].state = "closed"]
    /\ table' = onclose(table, tr[t].sessionId)
    /\ last' = Event("close", None, NoRequest, t)
    /\ resp' = NoResponse
    /\ calls' = {}
    /\ UNCHANGED <<variant, readOnly, uuids, seen, oneShot, authLog>>
    /\ UNCHANGED <<sd, effects, store, now, issued, att>>

\* A shutdown loop that has no try around transport.close(): the first close
\* that throws ends shutdown() before this.transports.clear()
ShutdownCloseUncaught(throws) ==
    /\ variant = "session"
    /\ sd.phase \in {"idle", "closing"}
    /\ Unvisited(table, sd.cursor) /= {}
    /\ LET e == NextEntry(table, sd.cursor)
           began == IF sd.phase = "idle" THEN {f[2] : f \in table} ELSE sd.began
       IN  /\ sd' = [phase |-> IF throws THEN "done" ELSE "closing", cursor |-> e[1],
                     began |-> began, attempted |-> sd.attempted \cup {e[2]}]
           /\ tr' = IF throws THEN tr ELSE [tr EXCEPT ![e[2]].state = "closed"]
           /\ table' = IF throws THEN table ELSE onclose(table, tr[e[2]].sessionId)
           /\ last' = Event("shutdown", None, NoRequest, e[2])
    /\ resp' = NoResponse
    /\ calls' = {}
    /\ UNCHANGED <<variant, readOnly, uuids, seen, oneShot, authLog>>
    /\ UNCHANGED <<effects, store, now, issued, att>>

\* shutdown(), one turn of its loop: the iterator yields the next entry and
\* transport.close() is called on it, within try/catch, up to the await. A close
\* that goes well runs the transport's onclose; one that throws leaves the entry.
\* The first turn is the call of shutdown() itself.
ShutdownClose(throws) ==
    /\ variant = "session"
    /\ sd.phase \in {"idle", "closing"}
    /\ Unvisited(table, sd.cursor) /= {}
    /\ LET e == NextEntry(table, sd.cursor)
           began == IF sd.phase = "idle" THEN {f[2] : f \in table} ELSE sd.began
       IN  /\ sd' = [phase |-> "closing", cursor |-> e[1],
                     began |-> began, attempted |-> sd.attempted \cup {e[2]}]
           /\ tr' = IF throws THEN tr ELSE [tr EXCEPT ![e[2]].state = "closed"]
           /\ table' = IF throws THEN table ELSE onclose(table, tr[e[2]].sessionId)
           /\ last' = Event("shutdown", None, NoRequest, e[2])
    /\ resp' = NoResponse
    /\ calls' = {}
    /\ UNCHANGED <<variant, readOnly, uuids, seen, oneShot, authLog>>
    /\ UNCHANGED <<effects, store, now, issued, att>>

\* shutdown(), past its loop: the iterator has nothing more to yield, whether
\* shutdown() was just called or resumes from its last await;
\* this.transports.clear() follows at once and shutdown() completes.
ShutdownEnd ==
    /\ variant = "session"
    /\ sd.phase \in {"idle", "closing"}
    /\ Unvisited(table, sd.cursor) = {}
    /\ sd' = [sd EXCEPT !.phase = "done",
                        !.began = IF sd.phase = "idle" THEN {f[2] : f \in table} ELSE @]
    /\ table' = {}
    /\ last' = Event("shutdown", None, NoRequest, 0)
    /\ resp' = NoResponse
    /\ calls' = {}
    /\ UNCHANGED <<variant, readOnly, tr, uuids, seen, oneShot, authLog>>
    /\ UNCHANGED <<effects, store, now, issued, att>>

-----------------------------------------------------------------------------
(* Stateless mode: MCPServerOfficial.handleRequest of unnamed/part_002 *)

\* new Server(...), new StreamableHTTPServerTransport({sessionIdGenerator: undefined})
\* and res.on('close', ...): the pair made for one request. `hooked` says that the
\* close listener was registered on the request's response.
NewPair == [sessionId |-> 0, state |-> "active", server |-> "open", hooked |-> TRUE]

\* What await server.connect(transport) and await transport.handleRequest(...) may
\* do: both return, or one of them throws before anything is written
Outcomes == {"handled", "threw"}

\* The catch of handleRequest: SSE-framed error -32603 with err.message
ConnectFailure == InternalError("Connection failed")

\* A handler that keeps one transport and server and hands every request to them
StatelessHandleRequestShared(r, outcome) ==
    /\ variant = "stateless"
    /\ LET user == AuthenticateRequest(r.cred)
           h == ServerDispatchStateless(r.body, user, readOnly)
           pair == IF tr = << >> THEN 1 ELSE Len(tr)
       IN  /\ authLog' = [AuthRun(r.cred) EXCEPT !.logged = @ \cup handleRequestLog(r)]
           /\ IF user = None
              THEN /\ outcome = "handled"
                   /\ resp' = Envelope(UnauthenticatedSse, IdOrOne(r.body.id))
                   /\ calls' = {}
                   /\ last' = Event("stateless", None, r, 0)
                   /\ UNCHANGED <<oneShot, tr>>
              ELSE /\ Len(tr) < MaxOneShot
                   /\ tr' = IF tr = << >> THEN <<NewPair>> ELSE tr
                   /\ oneShot' = IF tr = << >> THEN 1 ELSE oneShot
                   /\ IF outcome = "threw"
                      THEN /\ last' = Event("fault", user, [r EXCEPT !.body = NoBody], pair)
                           /\ resp' = Envelope(ConnectFailure, IdOrOne(r.body.id))
                           /\ calls' = {}
                      ELSE /\ last' = Event("stateless", user, r, pair)
                           /\ IF r.http /= "POST"
                              THEN resp' = Ok({}) /\ calls' = {}
                              ELSE IF r.body.id = IdAbsent
                              THEN resp' = Accepted202 /\ calls' = {}
                              ELSE IF r.body.rpc \notin KnownMethods
                              THEN resp' = Envelope(MethodNotFound, r.body.id) /\ calls' = {}
                              ELSE resp' = SdkAnswer(h, r.body.id) /\ calls' = h.calls
           /\ store' = IF /\ user /= None /\ outcome = "handled" /\ r.http = "POST"
                          /\ r.body.id /= IdAbsent /\ r.body.rpc \in KnownMethods
                       THEN h.store ELSE store
    /\ UNCHANGED <<variant, readOnly, table, uuids, seen>>
    /\ UNCHANGED <<sd, effects, now, issued, att>>

\* authenticateRequest, then handleRequest: without req.user an SSE-framed error;
\* otherwise a server and a transport are created for this request alone, the
\* close listener is put on the response, and the transport handles the request
\* with the handlers bound to req.user. When connect or handleRequest throws, the
\* catch answers; the request's body was not dispatched.
StatelessHandleRequest(r, outcome) ==
    /\ variant = "stateless"
    /\ LET user == AuthenticateRequest(r.cred)
           h == ServerDispatchStateless(r.body, user, readOnly)
           pair == Len(tr) + 1
       IN  /\ authLog' = [AuthRun(r.cred) EXCEPT !.logged = @ \cup handleRequestLog(r)]
           /\ IF user = None
              THEN /\ outcome = "handled"
                   /\ resp' = Envelope(UnauthenticatedSse, IdOrOne(r.body.id))
                   /\ calls' = {}
                   /\ last' = Event("stateless", None, r, 0)
                   /\ UNCHANGED <<oneShot, tr>>
              ELSE /\ Len(tr) < MaxOneShot
                   /\ tr' = Append(tr, NewPair)
                   /\ oneShot' = oneShot + 1
                   /\ IF outcome = "threw"
                      THEN /\ last' = Event("fault", user, [r EXCEPT !.body = NoBody], pair)
                           /\ resp' = Envelope(ConnectFailure, IdOrOne(r.body.id))
                           /\ calls' = {}
                      ELSE /\ last' = Event("stateless", user, r, pair)
                           /\ IF r.http /= "POST"
                              THEN resp' = Ok({}) /\ calls' = {}
                              ELSE IF r.body.id = IdAbsent
                              THEN resp' = Accepted202 /\ calls' = {}
                              ELSE IF r.body.rpc \notin KnownMethods
                              THEN resp' = Envelope(MethodNotFound, r.body.id) /\ calls' = {}
                              ELSE resp' = SdkAnswer(h, r.body.id) /\ calls' = h.calls
           /\ store' = IF /\ user /= None /\ outcome = "handled" /\ r.http = "POST"
                          /\ r.body.id /= IdAbsent /\ r.body.rpc \in KnownMethods
                       THEN h.store ELSE store
    /\ UNCHANGED <<variant, readOnly, table, uuids, seen>>
    /\ UNCHANGED <<sd, effects, now, issued, att>>

\* The response of the request that pair k was made for closes, and the
\* listener put on it runs: transport.close(); server.close()
StatelessResponseClose(k) ==
    /\ variant = "stateless"
    /\ k \in 1 .. Len(tr)
    /\ tr[k].hooked /\ tr[k].state = "active"
    /\ tr' = [tr EXCEPT ![k].state = "closed", ![k].server = "closed"]
    /\ oneShot' = oneShot - 1
    /\ last' = Event("close", None, NoRequest, k)
    /\ resp' = NoResponse
    /\ calls' = {}
    /\ UNCHANGED <<variant, readOnly, table, uuids, seen, authLog>>
    /\ UNCHANGED <<sd, effects, store, now, issued, att>>

-----------------------------------------------------------------------------
(* Plain JSON-RPC: HttpHandler.handleHTTP; req.user is set by the host's middleware *)

\* requireAuthentication(req, res, next): without req.user it answers 401, calls
\* next and returns false
requireAuthenticationEffects(user) ==
    IF user = None THEN <<"res.json", "next">> ELSE << >>

\* sendResponse(res, id, result, next) and sendError(res, id, error, next):
\* res.json(...); if (next) next()
sendResponseEffects == <<"res.json", "next">>
sendErrorEffects == <<"res.json", "next">>

\* A handleHTTP that goes on after requireAuthentication has answered
handleHTTPEffectsNoReturn(user, h) ==
    requireAuthenticationEffects(user)
        \o (IF h.threw THEN sendErrorEffects ELSE sendResponseEffects)

\* handleHTTP(req, res, next): what it does to res and next. It returns when
\* requireAuthentication says false; otherwise the switch over the method runs
\* inside try, followed by sendResponse, and the catch calls sendError.
handleHTTPEffects(user, h) ==
    IF requireAuthenticationEffects(user) /= << >>
    THEN requireAuthenticationEffects(user)
    ELSE IF h.threw THEN sendErrorEffects ELSE sendResponseEffects

HttpRequests == [user : Users \cup {None}, body : Bodies \cup {Body("tools/call", None, None)}]

HandleHTTP(q) ==
    /\ variant = "http"
    /\ LET h == HttpDispatch(q.body, q.user, readOnly)
           r == [cred |-> NoCred, http |-> "POST", sid |-> 0, body |-> q.body]
       IN  /\ last' = Event("http", q.user, r, 0)
           /\ IF q.user = None
              THEN resp' = Unauthenticated401 /\ calls' = {}
              ELSE /\ resp' = IF h.threw THEN sendError(q.body.id, h.msg)
                                   ELSE sendResponse(q.body.id, h)
                   /\ calls' = h.calls
           /\ store' = IF q.user = None THEN store ELSE h.store
           /\ effects' = handleHTTPEffects(q.user, h)
    /\ UNCHANGED <<variant, readOnly, tr, table, uuids, seen, oneShot, authLog>>
    /\ UNCHANGED <<sd, now, issued, att>>

-----------------------------------------------------------------------------
(* The attachment path: signed URLs are handed out, time passes, the mail store
   loses messages and files, and the delivery endpoint is asked *)

\* A handler builds the signed URL of attachment a of message m for its owner u:
\* the getAttachment tool of the stateless revision, after getAttachment(u, m, a,
\* 'info') returned, and formatMessage for the attachments of a message it formats
IssueUrl(u, m, a) ==
    /\ Cardinality(issued) < MaxIssued
    /\ ~getAttachment(u, m, a).threw
    /\ issued' = issued \cup {[url |-> generateSecureAttachmentUrl(m, a, now), at |-> now]}
    /\ UNCHANGED <<store, now, att>>
    /\ UNCHANGED gatewayVars

\* Time passes
Tick(t) ==
    /\ t > now
    /\ now' = t
    /\ UNCHANGED <<store, issued, att>>
    /\ UNCHANGED gatewayVars

\* A message is deleted for good: deleteOne({_id: message._id})
RemoveMessage(m) ==
    /\ Cardinality(store.messages) + Cardinality(store.files)
           > Cardinality(InitialStore.messages) + Cardinality(InitialStore.files) - MaxRemoved
    /\ \E x \in store.messages : x.id = m
    /\ store' = [store EXCEPT !.messages = {x \in @ : x.id /= m}]
    /\ UNCHANGED <<now, issued, att>>
    /\ UNCHANGED gatewayVars

\* An attachment file leaves GridFS
RemoveFile(g) ==
    /\ Cardinality(store.messages) + Cardinality(store.files)
           > Cardinality(InitialStore.messages) + Cardinality(InitialStore.files) - MaxRemoved
    /\ g \in store.files
    /\ store' = [store EXCEPT !.files = @ \ {g}]
    /\ UNCHANGED <<now, issued, att>>
    /\ UNCHANGED gatewayVars

\* An endpoint whose links are good for one download: the file is deleted after it
DeliverAttachmentOnce(p) ==
    /\ att' = [handleSecureAttachment(p) EXCEPT
                 !.again = (att.params = p /\ att.status = 200)]
    /\ store' = [store EXCEPT !.files = @ \ handleSecureAttachment(p).written]
    /\ UNCHANGED <<now, issued>>
    /\ UNCHANGED gatewayVars

\* GET /att/:messageId/:attachmentId/:expires/:signature/:filename
DeliverAttachment(p) ==
    /\ att' = [handleSecureAttachment(p) EXCEPT
                 !.again = (att.params = p /\ att.status = 200)]
    /\ UNCHANGED <<store, now, issued>>
    /\ UNCHANGED gatewayVars

\* A message arrives, or is indexed, with attachment a stored as GridFS file g:
\* the attachment ids are what the mail store holds, the gateway makes none
StoreAttachment(m, a, g) ==
    /\ g \in store.files
    /\ \E x \in store.messages :
          /\ x.id = m
          /\ \A e \in x.attachmentMap : e[1] /= a
          /\ store' = [store EXCEPT !.messages =
                          (@ \ {x}) \cup {[x EXCEPT !.attachmentMap = @ \cup {<<a, g>>}]}]
    /\ UNCHANGED <<now, issued, att>>
    /\ UNCHANGED gatewayVars

-----------------------------------------------------------------------------
(* Specifications *)

Next ==
    \/ \E r \in Requests : HandleUnauthenticated(r)
    \/ \E r \in Requests : HandleNoSession(r)
    \/ \E r \in InitializeRequests : HandleInitialize(r)
    \/ \E t \in 1 .. MaxTransports : ConnectResume(t)
    \/ \E r \in Requests : HandleRouted(r)
    \/ \E t \in 1 .. MaxTransports : TransportClose(t)
    \/ \E r \in StatelessRequests, outcome \in Outcomes : StatelessHandleRequest(r, outcome)
    \/ \E k \in 1 .. MaxOneShot : StatelessResponseClose(k)
    \/ \E q \in HttpRequests : HandleHTTP(q)

Spec == Init /\ [][Next]_vars

\* The session manager of session mode alone, on every method and session header
NextRoute ==
    \/ \E r \in RouteRequests : HandleUnauthenticated(r)
    \/ \E r \in RouteRequests : HandleNoSession(r)
    \/ \E r \in {x \in RouteRequests : x.cred = [NoCred EXCEPT !.path = "tA"]} :
          HandleInitialize(r)
    \/ \E t \in 1 .. MaxTransports : ConnectResume(t)
    \/ \E r \in RouteRequests : HandleRouted(r)
    \/ \E t \in 1 .. MaxTransports : TransportClose(t)

SpecRoute == Init /\ [][NextRoute]_vars

\* authenticateRequest alone, on every combination of credential locations
AuthenticateStep(c) ==
    /\ authLog' = AuthRun(c)
    /\ UNCHANGED <<variant, readOnly, tr, table, uuids, seen, oneShot, last, resp, calls>>
    /\ UNCHANGED <<sd, effects, store, now, issued, att>>

NextAuth == \E c \in AllCreds : AuthenticateStep(c)

SpecAuth == Init /\ [][NextAuth]_vars

\* Session mode while the plugin's close hook runs shutdown(): requests that
\* differ in credential, method and session header go on arriving
InitShutdown == Init /\ variant = "session" /\ ~readOnly

ShutdownRequests ==
    {r \in RouteRequests : r.cred \in {NoCred, [NoCred EXCEPT !.path = "tA"]}}

NextShutdown ==
    \/ \E r \in ShutdownRequests : HandleUnauthenticated(r)
    \/ \E r \in ShutdownRequests : HandleNoSession(r)
    \/ \E r \in ShutdownRequests : HandleInitialize(r)
    \/ \E t \in 1 .. MaxTransports : ConnectResume(t)
    \/ \E r \in ShutdownRequests : HandleRouted(r)
    \/ \E t \in 1 .. MaxTransports : TransportClose(t)
    \/ \E throws \in BOOLEAN : ShutdownClose(throws)
    \/ ShutdownEnd

SpecShutdown == InitShutdown /\ [][NextShutdown]_vars

\* The markAsRead tool in the three revisions: u1 and u2 call it on u1's message
\* with read true, false and left out
InitFlags == Init /\ ~readOnly

ReadValues == {"undefined", "false", "true"}

FlagBodies == {InitBody} \cup {MarkAsRead("m1", v) : v \in ReadValues}

FlagRequests ==
    [cred : {[NoCred EXCEPT !.path = "tA"],
             [NoCred EXCEPT !.authz = [scheme |-> "Bearer", tok |-> "tB"]]},
     http : {"POST"}, sid : {0, randomUUID(0)}, body : FlagBodies]

NextFlags ==
    \/ \E r \in FlagRequests : HandleNoSession(r)
    \/ \E r \in FlagRequests : HandleInitialize(r)
    \/ \E t \in 1 .. MaxTransports : ConnectResume(t)
    \/ \E r \in FlagRequests : HandleRouted(r)
    \/ \E r \in {x \in FlagRequests : x.sid = 0}, outcome \in Outcomes :
          StatelessHandleRequest(r, outcome)
    \/ \E k \in 1 .. MaxOneShot : StatelessResponseClose(k)
    \/ \E q \in [user : Users, body : FlagBodies] : HandleHTTP(q)

SpecFlags == InitFlags /\ [][NextFlags]_vars

\* The attachment path alone; it is the same in every revision and access mode.
\* The links handed out are those of u1's message m1, asked for by either user;
\* m2 and its attachment are what a changed link points at
InitAtt == Init /\ variant = "session" /\ ~readOnly

NextAtt ==
    \/ \E u \in Users, a \in AttachmentIds : IssueUrl(u, "m1", a)
    \/ \E t \in ClockValues : Tick(t)
    \/ \E m \in MessageIds : RemoveMessage(m)
    \/ \E g \in GridfsFiles : RemoveFile(g)
    \/ \E p \in AttachmentRequests : DeliverAttachment(p)

SpecAtt == InitAtt /\ [][NextAtt]_vars

\* The signed URL codec on path segments that hold a ':': the endpoint is asked
\* with the URLs handed out and with each of them split otherwise
SignRequests ==
    IssuedUrls
    \cup {[u EXCEPT !.messageId = p[1], !.attachmentId = p[2]] :
            u \in IssuedUrls,
            p \in {MessageIdSeq[i] : i \in 1 .. Len(MessageIdSeq)}
                    \X {AttachmentIdSeq[i] : i \in 1 .. Len(AttachmentIdSeq)}}

NextSign ==
    \/ StoreAttachment("m1", "x:a1", "g1")
    \/ \E u \in Users, m \in MessageIds, a \in {"a1", "a2", "x:a1"} : IssueUrl(u, m, a)
    \/ \E t \in ClockValues : Tick(t)
    \/ \E p \in SignRequests : DeliverAttachment(p)

SpecSign == InitAtt /\ [][NextSign]_vars

-----------------------------------------------------------------------------
(* Vocabulary of the claims *)

Keys(tbl) == {e[1] : e \in tbl}

\* The response has the status, error code and message of `shape`
Answered(shape) ==
    resp.status = shape.status /\ resp.code = shape.code /\ resp.msg = shape.msg

\* The last event is a request that reached the method dispatch of its revision
Dispatched ==
    /\ last.user /= None
    /\ last.http = "POST"
    /\ \/ last.via \in {"http", "stateless"}
       \/ last.via = "mcp" /\ last.routedTo /= 0

\* The last event is a request of an authenticated caller in session mode
SessionRequest == last.via = "mcp" /\ last.user /= None

-----------------------------------------------------------------------------
(* C1 *)

\* C1: under config.readOnly, a dispatched tools/call naming a write tool fails
\* with Forbidden (403) and invokes no Mail Data Service operation.
C1_WriteToolForbidden ==
    (readOnly /\ Dispatched /\ last.body.rpc = "tools/call" /\ last.body.name \in writeTools)
        => (resp.status = 403 /\ calls = {})

-----------------------------------------------------------------------------
(* C2 *)

\* C2: tools/list returns no write tool when the gateway is read-only and every
\* write tool otherwise; the read tools are listed in both modes.
C2_ToolsListByMode ==
    (Dispatched /\ last.body.rpc = "tools/list")
        => /\ readOnlyTools \subseteq resp.tools
           /\ readOnly => resp.tools \cap writeTools = {}
           /\ ~readOnly => writeTools \subseteq resp.tools

C2_Witness ==
    /\ Dispatched
    /\ last.body.rpc = "tools/list"
    /\ readOnly
    /\ resp.tools = readOnlyTools

-----------------------------------------------------------------------------
(* C3 *)

\* C3: an authenticated request whose session id is not in the session table
\* (or is absent) and that is not an initialize call is answered 400 / -32000
\* 'No session found. Initialize first.'; the table is unchanged and no
\* transport is created.
C3_NoSessionRejected ==
    (SessionRequest /\ ~TransportsHas(last.before.table, last.sid)
                    /\ ~isInitializeRequest(last.body))
        => /\ Answered(NoSession400)
           /\ table = last.before.table
           /\ Len(tr) = last.before.ntr

C3_Witness ==
    /\ SessionRequest
    /\ last.sid /= 0
    /\ ~TransportsHas(last.before.table, last.sid)
    /\ ~isInitializeRequest(last.body)
    /\ table /= {}
    /\ Answered(NoSession400)

-----------------------------------------------------------------------------
(* C4 *)

\* C4: an authenticated initialize request (POST) that carries no existing
\* session id creates exactly one new transport, and the session id minted for
\* it when the request is run differs from every id that is or ever was a key
\* of the session table; the transport is registered under it.
C4_InitializeMintsFreshSession ==
    /\ (SessionRequest /\ last.http = "POST" /\ isInitializeRequest(last.body)
          /\ ~TransportsHas(last.before.table, last.sid))
       => /\ Len(tr) = last.before.ntr + 1
          /\ tr[Len(tr)] = NewTransport(last.user)
          /\ table = last.before.table
    /\ last.via = "init"
       => /\ Len(tr) = last.before.ntr
          /\ tr[last.routedTo].sessionId /= 0
          /\ tr[last.routedTo].sessionId \notin last.before.seen
          /\ tr[last.routedTo].sessionId \notin Keys(last.before.table)
          /\ \A u \in 1 .. Len(tr) :
                u /= last.routedTo => tr[u].sessionId /= tr[last.routedTo].sessionId
          /\ TransportsGet(table, tr[last.routedTo].sessionId) = last.routedTo

\* the second session of a run: its id is minted after the first session's id
\* has been in the table and left it
C4_Witness ==
    /\ last.via = "init"
    /\ Len(tr) = 2
    /\ tr[1].state = "closed"
    /\ tr[1].sessionId \in last.before.seen
    /\ tr[2].sessionId \notin {0, tr[1].sessionId}
    /\ table = {<<tr[2].sessionId, 2>>}

-----------------------------------------------------------------------------
(* C5 *)

\* C5: a request whose session id is in the session table is handed to the
\* transport registered under that id, the one that minted it, and creates no
\* session or transport, whatever its HTTP method or body.
C5_KnownSessionRouted ==
    (SessionRequest /\ TransportsHas(last.before.table, last.sid))
        => /\ last.routedTo = TransportsGet(last.before.table, last.sid)
           /\ last.routedTo \in 1 .. Len(tr)
           /\ tr[last.routedTo].sessionId = last.sid
           /\ Len(tr) = last.before.ntr
           /\ table \subseteq last.before.table

\* the case named in the claim: the body is itself an initialize request
C5_Witness ==
    /\ SessionRequest
    /\ TransportsHas(last.before.table, last.sid)
    /\ last.http = "POST"
    /\ isInitializeRequest(last.body)
    /\ last.routedTo /= 0
    /\ Answered(AlreadyInitialized)

-----------------------------------------------------------------------------
(* C6 *)

\* C6: when a transport closes its session id leaves the session table and no
\* other entry does; a later non-initialize request bearing that id is
\* answered 'No session found'.
C6_CloseRemovesSession ==
    /\ \A t \in 1 .. Len(tr) :
          tr[t].state = "closed" => ~TransportsHas(table, tr[t].sessionId)
    /\ \A t \in 1 .. Len(tr) :
          (tr[t].state = "closed" /\ last.routedTo = t
             /\ (last.via = "close" \/ (last.via = "mcp" /\ last.http = "DELETE")))
          => table = last.before.table \ {<<tr[t].sessionId, t>>}
    /\ \A t \in 1 .. Len(tr) :
          (SessionRequest /\ tr[t].state = "closed" /\ last.sid = tr[t].sessionId
             /\ ~TransportsHas(last.before.table, last.sid)
             /\ ~isInitializeRequest(last.body))
          => Answered(NoSession400)

\* a request bearing the id of a closed session is refused while another
\* session is still registered
C6_Witness ==
    /\ SessionRequest
    /\ Answered(NoSession400)
    /\ \E t \in 1 .. Len(tr) : tr[t].state = "closed" /\ tr[t].sessionId = last.sid
    /\ table /= {}

-----------------------------------------------------------------------------
(* C7 *)

\* C7: the session table holds at most one entry per session id, each entry
\* maps an id to the live transport whose own sessionId is that id, and an
\* entry appears only when the transport that minted the id runs its
\* onsessioninitialized callback.
C7_TableConsistent ==
    /\ \A e1 \in table : \A e2 \in table : e1[1] = e2[1] => e1 = e2
    /\ \A e \in table :
          /\ e[2] \in 1 .. Len(tr)
          /\ tr[e[2]].sessionId = e[1]
          /\ tr[e[2]].state = "active"
    /\ ~(table \subseteq last.before.table)
          => /\ last.via = "init"
             /\ table \ last.before.table = {<<tr[last.routedTo].sessionId, last.routedTo>>}

C7_Witness ==
    /\ Cardinality(table) = 2
    /\ last.via = "init"

-----------------------------------------------------------------------------
(* C8 *)

\* C8: a request without a valid credential is answered HTTP 401 before any
\* capability runs: no Mail Data Service operation, no transport or server,
\* session table unchanged.
C8_Unauthenticated401 ==
    (last.via \in {"mcp", "stateless", "http"} /\ last.user = None)
        => /\ resp.status = 401
           /\ calls = {}
           /\ Len(tr) = last.before.ntr
           /\ oneShot = last.before.oneShot
           /\ table = last.before.table

-----------------------------------------------------------------------------
(* C9 *)

\* C9: the credential handed to authenticate is the first populated one in the
\* order URL path, X-Access-Token header, Authorization: Bearer header, query
\* parameter.
C9_DocumentedPrecedence ==
    authLog.handed =
        (IF Truthy(DocumentedToken(authLog.cred)) THEN DocumentedToken(authLog.cred) ELSE None)

-----------------------------------------------------------------------------
(* C10 *)

\* C10: every Mail Data Service operation of a dispatched request is invoked
\* with the identity authenticated for that request as its principal.
C10_PrincipalIsAuthenticatedIdentity ==
    \A c \in calls : c.principal = last.user

-----------------------------------------------------------------------------
(* C11 *)

\* The message a dispatched request asks for: the messageId argument of the
\* getMessage and getAttachment tools, the message of a message or attachment URI
RequestedMessage ==
    CASE last.body.rpc = "tools/call" /\ last.body.name \in {"getMessage", "getAttachment"} ->
            last.body.messageId
      [] last.body.rpc = "resources/read" /\ last.body.name \in MessageUris ->
            MessageIdOfUri(last.body.name)
      [] last.body.rpc = "resources/read" /\ last.body.name \in AttachmentUris ->
            AttachmentOfUri(last.body.name)[1]
      [] OTHER -> None

\* Message m exists and belongs to somebody else than u
ForeignMessage(u, m) == \E x \in store.messages : x.id = m /\ x.user /= u

-----------------------------------------------------------------------------
(* C12 *)

\* The last request to the endpoint passed verifySecureAttachmentUrl: no 403,
\* and the attachment was asked for
Verified == att.status /= 0 /\ att.status /= 403 /\ att.ops /= {}

\* C12: a URL made at time t0 carries expires = t0 + 3600; asked for unchanged
\* at a time up to and including expires it verifies, and after expires it is
\* refused with 'Attachment link expired'.
C12_SignedUrlRoundTrip ==
    /\ \A i \in issued : i.url.expires = ToString(i.at + 3600)
    /\ \A i \in issued :
          att.params = i.url
             => /\ att.at <= i.at + 3600 => Verified
                /\ att.at > i.at + 3600
                      => /\ att.status = 403
                         /\ att.text = "Forbidden: Attachment link expired"
                         /\ att.written = {}

\* the last second of a link: now = expires
C12_Witness ==
    /\ \E i \in issued : att.params = i.url /\ att.at = i.at + 3600
    /\ att.at > 0
    /\ att.status = 200
    /\ att.written /= {}

-----------------------------------------------------------------------------
(* C13 *)

\* Signature f differs from signature g in exactly one character
OneCharApart(f, g) ==
    /\ Len(f) = Len(g)
    /\ Cardinality({k \in 1 .. Len(g) : f[k] /= g[k]}) = 1

\* C13: an unexpired URL whose signature was changed in a single character is
\* refused with 'Invalid attachment signature'; and whatever verifies carries
\* the signature HMAC(secret, messageId:attachmentId:expires).
C13_TamperedSignatureRefused ==
    /\ \A i \in issued :
          (/\ att.params.messageId = i.url.messageId
           /\ att.params.attachmentId = i.url.attachmentId
           /\ att.params.expires = i.url.expires
           /\ OneCharApart(att.params.signature, i.url.signature)
           /\ att.at <= i.at + 3600)
          => /\ att.status = 403
             /\ att.text = "Forbidden: Invalid attachment signature"
             /\ att.written = {}
    /\ Verified
          => att.params.signature =
                signData(<<att.params.messageId, att.params.attachmentId, att.params.expires>>,
                         AttachmentSecret)

\* a link with its signature's last character changed, asked for in time
C13_Witness ==
    /\ \E i \in issued :
          /\ att.params.expires = i.url.expires
          /\ OneCharApart(att.params.signature, i.url.signature)
          /\ att.params.signature[SigLen] /= i.url.signature[SigLen]
          /\ att.at <= i.at + 3600
    /\ att.status = 403
    /\ att.text = "Forbidden: Invalid attachment signature"

-----------------------------------------------------------------------------
(* C14 *)

\* C14: a signed URL can be used again: asked for once more after a successful
\* delivery, and in time, it verifies; whether a request verifies is settled by
\* its fields, the secret and the time alone; and a request to the endpoint
\* changes neither the mail store nor the gateway's state.
C14_SignedUrlReusable ==
    /\ [](\A i \in issued :
            (att.again /\ att.params = i.url /\ att.at <= i.at + 3600) => Verified)
    /\ [](att.status /= 0
            => (Verified <=>
                  /\ ~Later(att.at, parseInt(att.params.expires))
                  /\ att.params.signature =
                        signData(<<att.params.messageId, att.params.attachmentId,
                                   att.params.expires>>, AttachmentSecret)))
    /\ [][att' /= att => (store' = store /\ issued' = issued /\ gatewayVars' = gatewayVars)]_vars

\* the same link delivered a second time, an hour after it was made
C14_Witness ==
    /\ att.again
    /\ att.status = 200
    /\ att.written /= {}
    /\ \E i \in issued : att.params = i.url /\ i.at < att.at /\ att.at = i.at + 3600

-----------------------------------------------------------------------------
(* C15 *)

\* The last request to the endpoint came after its expiry, or its signature is
\* not the one of its fields
VerificationFails ==
    /\ att.status /= 0
    /\ \/ Later(att.at, parseInt(att.params.expires))
       \/ att.params.signature /=
             signData(<<att.params.messageId, att.params.attachmentId, att.params.expires>>,
                      AttachmentSecret)

\* C15: when the verification of a signed URL fails, by expiry (even under a
\* rightly computed signature) or by a signature mismatch, the endpoint answers
\* 403, does not ask for the attachment and writes none of its bytes.
C15_FailedVerificationIs403 ==
    VerificationFails => (att.status = 403 /\ att.ops = {} /\ att.written = {})

\* an expired link under the signature it was issued with
C15_Witness ==
    /\ \E i \in issued : att.params = i.url /\ att.at > i.at + 3600
    /\ VerificationFails
    /\ att.status = 403
    /\ att.ops = {}

-----------------------------------------------------------------------------
(* C16 *)

\* C16: a request that verifies but names a message or attachment that is no
\* longer there is answered NotFound, HTTP 404.
C16_MissingObjectIs404 ==
    (Verified /\ att.text \in {"Message not found", "Attachment not found"})
        => att.status = 404

-----------------------------------------------------------------------------
(* C17 *)

\* C17: the endpoint's failures look alike: whatever failing request is made
\* now gets the status and the body the last failing request got, whether the
\* cause is expiry, a wrong signature or a missing object.
C17_FailuresIndistinguishable ==
    \A q \in AttachmentRequests :
        (att.status \notin {0, 200} /\ handleSecureAttachment(q).status /= 200)
            => /\ handleSecureAttachment(q).status = att.status
               /\ handleSecureAttachment(q).text = att.text

-----------------------------------------------------------------------------
(* C18 *)

\* The credentials that must not authenticate: refused, throwing, and the token
\* of a disabled account
RejectedTokens == {"bad", "boom", "tD"}

\* C18: a credential that fails authentication, one whose authenticate call
\* throws and one of a disabled or suspended account have the same outcome:
\* no identity is attached to the request, and it is answered as
\* unauthenticated.
C18_RejectedCredentialsAlike ==
    (last.via \in {"mcp", "stateless"} /\ authLog.handed \in RejectedTokens)
        => /\ authLog.user = None
           /\ last.user = None
           /\ Answered(Unauthenticated401) \/ Answered(UnauthenticatedSse)

-----------------------------------------------------------------------------
(* C19 *)

\* The dispatched request names a method, tool or resource URI there is none of
UnknownCapability ==
    \/ last.body.rpc \notin KnownMethods
    \/ last.body.rpc = "tools/call" /\ Truthy(last.body.name)
          /\ last.body.name \notin readOnlyToolsStateless \cup writeTools
    \/ last.body.rpc = "resources/read" /\ Truthy(last.body.name)
          /\ last.body.name \notin MessageUris \cup AttachmentUris \cup FixedUris

\* The dispatched request lacks a parameter its method requires
MissingParams ==
    last.body.rpc \in {"tools/call", "resources/read", "completion/complete"}
        /\ ~Truthy(last.body.name)

\* C19: a dispatch failure carries the code of its class: -32601 for an unknown
\* method, tool or resource URI, -32600 for missing required params, and
\* -32603 for nothing but an unexpected exception.
C19_ErrorCodeByClass ==
    (Dispatched /\ last.body.id /= IdAbsent)
        => /\ UnknownCapability => resp.code = -32601
           /\ MissingParams => resp.code = -32600
           /\ resp.code = -32603 => ~UnknownCapability /\ ~MissingParams

-----------------------------------------------------------------------------
(* C20 *)

\* The last event is a POST request carrying an id that was answered with a
\* JSON-RPC result or error
JsonRpcAnswer ==
    /\ last.via \in {"mcp", "stateless", "http"}
    /\ last.http = "POST"
    /\ last.body.id \in Ids
    /\ resp.code /= 0 \/ resp.status = 200

\* C20: a result and an error alike carry the id of the request they answer,
\* whatever that id is, 0 and the empty string included.
C20_ResponseCarriesRequestId ==
    JsonRpcAnswer => resp.id = last.body.id

-----------------------------------------------------------------------------
(* C21 *)

KnownProviders == {"wildduck://completion/mailbox", "wildduck://completion/email"}

\* The last event is a dispatched completion/complete request that carries an id
CompletionRequest ==
    Dispatched /\ last.body.rpc = "completion/complete" /\ last.body.id /= IdAbsent

\* The data lookup of the provider was made and threw: it was asked about a
\* user the users collection does not hold
LookupThrew ==
    \E c \in calls : c.op \in {"getMailboxList", "getUserInfo"} /\ c.principal \notin store.users

\* C21: completion/complete never fails because of its provider: an unknown
\* ref, and a known provider whose data lookup throws, are both answered with
\* a success result whose values list is empty.
C21_CompletionNeverFails ==
    (CompletionRequest /\ (last.body.name \notin KnownProviders \/ LookupThrew))
        => resp.status = 200 /\ resp.code = 0 /\ resp.data = {}

\* A known provider whose lookup threw was answered with the empty list
C21_Witness ==
    /\ CompletionRequest /\ last.body.name \in KnownProviders /\ LookupThrew
    /\ resp.status = 200 /\ resp.code = 0 /\ resp.data = {}

-----------------------------------------------------------------------------
(* C22 *)

\* shutdown() has just completed
ShutdownCompleted == sd.phase = "done" /\ last.via = "shutdown"

\* close() has been called on transport t, by shutdown() or by a request or
\* event that closed it
CloseAttempted(t) == t \in sd.attempted \/ tr[t].state = "closed"

\* C22: when shutdown() completes the session table is empty, and close has
\* been attempted on every transport that was registered when shutdown began,
\* also when closing some transport threw.
C22_ShutdownClosesAll ==
    ShutdownCompleted => table = {} /\ \A t \in sd.began : CloseAttempted(t)

\* shutdown() completed over two registered transports, the close of one of
\* which threw
C22_Witness ==
    /\ ShutdownCompleted /\ table = {}
    /\ Cardinality(sd.began) = 2 /\ sd.began \subseteq sd.attempted
    /\ \E t \in sd.began : tr[t].state /= "closed"

-----------------------------------------------------------------------------
(* C23 *)

\* The last event is an authenticated request in stateless mode, whether it was
\* handled or connect or handling threw
StatelessAuthenticated == last.via \in {"stateless", "fault"} /\ last.user /= None

\* C23: in stateless mode every authenticated request gets a transport and a
\* server that did not exist before it, with the close listener on the request's
\* response, also when connect or handling throws; when a response closes, its
\* transport and server are both closed; and the pairs still open are as many
\* as the responses still open, none kept or shared.
C23_OneShotPairPerRequest ==
    variant = "stateless"
        => /\ StatelessAuthenticated
              => /\ Len(tr) = last.before.ntr + 1
                 /\ last.routedTo = Len(tr)
                 /\ tr[last.routedTo] = NewPair
                 /\ oneShot = last.before.oneShot + 1
           /\ (last.via = "close")
              => tr[last.routedTo].state = "closed" /\ tr[last.routedTo].server = "closed"
           /\ \A k \in 1 .. Len(tr) : tr[k].hooked
           /\ oneShot = Cardinality({k \in 1 .. Len(tr) : tr[k].state = "active"})

\* A second request, whose connect or handling threw, got a pair of its own
\* while the first request's pair was still open
C23_Witness ==
    /\ last.via = "fault" /\ last.user /= None
    /\ Len(tr) = 2 /\ last.routedTo = 2
    /\ tr[1].state = "active" /\ tr[2] = NewPair

-----------------------------------------------------------------------------
(* C24 *)

\* The last event closed transport last.routedTo: a close event, or a DELETE
\* request routed to it
CloseEvent ==
    \/ last.via = "close"
    \/ last.via = "mcp" /\ last.http = "DELETE" /\ last.routedTo /= 0

\* C24: however initialize requests, routed requests, close events and the
\* turns of shutdown() interleave, the session table stays consistent: no two
\* entries share an id or a transport; an initialization adds one entry, under
\* an id and for a transport the table did not hold, and leaves every other
\* entry in place; a close event removes the entries of the transport that
\* closed and no other; any other request leaves the table as it was.
C24_TableConsistentUnderInterleaving ==
    /\ \A e1 \in table : \A e2 \in table :
          (e1[1] = e2[1] \/ e1[2] = e2[2]) => e1 = e2
    /\ last.via = "init"
          => /\ last.before.table \subseteq table
             /\ table \ last.before.table = {<<tr[last.routedTo].sessionId, last.routedTo>>}
             /\ \A e \in last.before.table :
                   e[1] /= tr[last.routedTo].sessionId /\ e[2] /= last.routedTo
    /\ CloseEvent
          => table = {e \in last.before.table : e[2] /= last.routedTo}
    /\ (last.via = "mcp" /\ ~CloseEvent) => table = last.before.table

\* Two initialize requests were in flight together (the transport made second
\* was initialized first), and both are registered, each under its own id
C24_Witness ==
    /\ last.via = "init" /\ Len(tr) = 2
    /\ tr[1].sessionId = 2 /\ tr[2].sessionId = 1
    /\ table = {<<2, 1>>, <<1, 2>>}

-----------------------------------------------------------------------------
(* C25 *)

\* The last event is a markAsRead call that was answered with a result
MarkAsReadSucceeded ==
    /\ Dispatched /\ last.via /= "fault"
    /\ last.body.rpc = "tools/call" /\ last.body.name = "markAsRead"
    /\ last.body.id /= IdAbsent
    /\ resp.status = 200 /\ resp.code = 0

\* The flags of message m
FlagsOf(m) == (CHOOSE x \in store.messages : x.id = m).flags

\* C25: after a successful markAsRead with read = true, or with read left out
\* (the schema's default is true), the message's flags contain \Seen; after a
\* successful markAsRead with read = false they do not.
C25_MarkAsReadSetsSeen ==
    MarkAsReadSucceeded
        => /\ last.body.read \in {"true", "undefined"} => "\\Seen" \in FlagsOf(last.body.messageId)
           /\ last.body.read = "false" => "\\Seen" \notin FlagsOf(last.body.messageId)

-----------------------------------------------------------------------------
(* C26 *)

\* Every character of every credential the request carried
CredentialChars(c) ==
    {Chars(tok)[i] : tok \in {t \in {c.path, c.query, c.xhdr, c.authz.tok} : Truthy(t)},
                     i \in 1 .. TokenLen}

\* C26: no log record written while a credential is resolved or a request is
\* handled contains the credential or any part of it, be it the token itself, a
\* header or a URL that has it.
C26_NoCredentialInLogs ==
    \A record \in authLog.logged :
        \A i \in 1 .. Len(record) : record[i] \notin CredentialChars(authLog.cred)

-----------------------------------------------------------------------------
(* C27 *)

\* C27: a signature binds one object and expiry: whatever request passes the
\* verification under the signature made for (messageId, attachmentId, expires)
\* names that very triple, also when the path segments hold a ':'.
C27_SignatureBindsOneTriple ==
    \A i \in issued :
        (Verified /\ att.params.signature = i.url.signature)
            => /\ att.params.messageId = i.url.messageId
               /\ att.params.attachmentId = i.url.attachmentId
               /\ att.params.expires = i.url.expires

-----------------------------------------------------------------------------
(* C28 *)

\* The last event is a dispatched call of the getAttachment tool on a message
\* of the caller
GetAttachmentOnOwnMessage ==
    /\ Dispatched /\ last.via /= "fault"
    /\ last.body.rpc = "tools/call" /\ last.body.name = "getAttachment"
    /\ last.body.id /= IdAbsent
    /\ \E x \in store.messages :
          x.id = last.body.messageId /\ x.user = last.user /\ x.mailboxUser = last.user

\* The attachment map of message m
AttachmentMapOf(m) == (CHOOSE x \in store.messages : x.id = m).attachmentMap

\* C28: the getAttachment tool returns only an attachment of the message it
\* names: an attachmentId that is no key of that message's attachment map is
\* answered 'Attachment not found', also when it is the storage id of another
\* message's attachment, and what is returned is a file of the message's map.
C28_AttachmentOfMessageOnly ==
    GetAttachmentOnOwnMessage
        => /\ (\A e \in AttachmentMapOf(last.body.messageId) : e[1] /= last.body.attachmentId)
                => resp.code /= 0 /\ resp.msg = "Attachment not found"
           /\ resp.data \subseteq {e[2] : e \in AttachmentMapOf(last.body.messageId)}

-----------------------------------------------------------------------------
(* C29 *)

\* The last event is a request that was handled by the transport of a session
RoutedToSession == last.via = "mcp" /\ last.user /= None /\ last.routedTo /= 0

\* C29: a request routed to a session runs with the identity authenticated for
\* that very request: every Mail Data Service operation it invokes has the
\* request's own user as principal, whoever initialized the session.
C29_RequestRunsAsItsOwnCaller ==
    RoutedToSession
        => /\ last.user = authLog.user
           /\ \A c \in calls : c.principal = last.user

\* A tool or resource call on a session that another caller initialized
C29_Witness ==
    /\ RoutedToSession
    /\ last.body.rpc \in {"tools/call", "resources/read"}
    /\ tr[last.routedTo].initializedBy \notin {None, last.user}
    /\ calls /= {}
    /\ \A c \in calls : c.principal = last.user

-----------------------------------------------------------------------------
(* C30 *)

\* How many times handleHTTP did `what` in its last call
Times(what) == Cardinality({i \in 1 .. Len(effects) : effects[i] = what})

\* C30: for every request handleHTTP handles, one response is sent (the 401
\* body, a JSON-RPC result or a JSON-RPC error) and next() is called once,
\* whichever method is asked for and whether its implementation returns or throws.
C30_OneResponseOneNext ==
    last.via = "http"
        => /\ Times("res.json") = 1
           /\ Times("next") = 1
           /\ resp.status /= 0

\* A method whose implementation threw: one JSON-RPC error, next called once
C30_Witness ==
    /\ last.via = "http" /\ last.user /= None
    /\ last.body.rpc = "tools/call" /\ calls /= {}
    /\ resp.code = -32603
    /\ effects = <<"res.json", "next">>

====
